---- MODULE Spec2Model ----
(***************************************************************************)
(* ScrollableTabBar (src/client/components/ScrollableTabBar.tsx): the      *)
(* layout arithmetic, the animation targets, the scroll synchronisation    *)
(* and the press handlers of the custom bottom tab bar, as a state machine *)
(* over the props the router hands to the component.                       *)
(***************************************************************************)
EXTENDS Integers, Sequences, FiniteSets

\* ---------------------------------------------------------------- bounds
\* The longest route list the router hands to the component.
MaxRoutes == 6

\* ------------------------------------------------------- natural numbers
\* TLC's integers are 32 bits wide and a binary64 significand takes 53, so a
\* natural number is the sequence of its base-2^15 digits, least significant
\* first, without leading zeros (<< >> is 0).
LimbBits == 15
Limb == 32768

Pow2(k) == 2 ^ k

RECURSIVE NatTrim(_)
NatTrim(a) ==
    IF a = << >> THEN a
    ELSE IF a[Len(a)] = 0 THEN NatTrim(SubSeq(a, 1, Len(a) - 1)) ELSE a

NatOfInt(n) ==
    NatTrim(<< n % Limb, (n \div Limb) % Limb, n \div (Limb * Limb) >>)

NatDigit(a, i) == IF i <= Len(a) THEN a[i] ELSE 0

\* The number of binary digits of a single base-2^15 digit.
RECURSIVE DigitBitLen(_)
DigitBitLen(d) == IF d = 0 THEN 0 ELSE 1 + DigitBitLen(d \div 2)

NatBitLen(a) ==
    IF a = << >> THEN 0 ELSE (Len(a) - 1) * LimbBits + DigitBitLen(a[Len(a)])

\* -1, 0 or 1 as a < b, a = b or a > b.
RECURSIVE NatCmpFrom(_, _, _)
NatCmpFrom(a, b, i) ==
    IF i = 0 THEN 0
    ELSE IF a[i] < b[i] THEN -1
    ELSE IF a[i] > b[i] THEN 1
    ELSE NatCmpFrom(a, b, i - 1)

NatCmp(a, b) ==
    IF Len(a) < Len(b) THEN -1
    ELSE IF Len(a) > Len(b) THEN 1
    ELSE NatCmpFrom(a, b, Len(a))

\* a * d + b + carry from digit i on, for a single digit d.
RECURSIVE NatMulAddFrom(_, _, _, _, _)
NatMulAddFrom(a, d, b, i, carry) ==
    IF i > Len(a) /\ i > Len(b)
    THEN (IF carry = 0 THEN << >> ELSE << carry >>)
    ELSE << (NatDigit(a, i) * d + NatDigit(b, i) + carry) % Limb >>
            \o NatMulAddFrom(a, d, b, i + 1,
                             (NatDigit(a, i) * d + NatDigit(b, i) + carry) \div Limb)

NatAdd(a, b) == NatMulAddFrom(a, 1, b, 1, 0)

\* a - b for a >= b.
RECURSIVE NatSubFrom(_, _, _, _)
NatSubFrom(a, b, i, borrow) ==
    IF i > Len(a) THEN << >>
    ELSE << (a[i] - NatDigit(b, i) - borrow + Limb) % Limb >>
            \o NatSubFrom(a, b, i + 1,
                          IF a[i] - NatDigit(b, i) - borrow < 0 THEN 1 ELSE 0)

NatSub(a, b) == NatTrim(NatSubFrom(a, b, 1, 0))

\* a * Limb^n
NatShiftLimbs(a, n) ==
    IF a = << >> THEN a ELSE [i \in 1..n |-> 0] \o a

\* a * b, from digit j of b on.
RECURSIVE NatMulFrom(_, _, _)
NatMulFrom(a, b, j) ==
    IF j > Len(b) THEN << >>
    ELSE NatTrim(NatMulAddFrom(a, b[j],
                               NatShiftLimbs(NatMulFrom(a, b, j + 1), 1), 1, 0))

NatMul(a, b) == NatMulFrom(a, b, 1)

\* a * 2^k
NatShl(a, k) ==
    NatShiftLimbs(NatMulAddFrom(a, Pow2(k % LimbBits), << >>, 1, 0), k \div LimbBits)

\* floor(a / 2^k) for 0 <= k < 15, digit by digit from position i.
RECURSIVE NatShrBitsFrom(_, _, _)
NatShrBitsFrom(a, k, i) ==
    IF i > Len(a) THEN << >>
    ELSE << (a[i] \div Pow2(k)) + (NatDigit(a, i + 1) % Pow2(k)) * Pow2(LimbBits - k) >>
            \o NatShrBitsFrom(a, k, i + 1)

\* floor(a / 2^k)
NatShr(a, k) ==
    IF k \div LimbBits >= Len(a) THEN << >>
    ELSE NatTrim(NatShrBitsFrom(SubSeq(a, (k \div LimbBits) + 1, Len(a)),
                                k % LimbBits, 1))

\* The binary digit of a at position k (0: the least significant).
NatBit(a, k) == (NatDigit(a, (k \div LimbBits) + 1) \div Pow2(k % LimbBits)) % 2

\* a mod 2^k is not 0.
NatLowBitsSet(a, k) ==
    \/ \E i \in 1..Len(a) : i <= k \div LimbBits /\ a[i] # 0
    \/ NatDigit(a, (k \div LimbBits) + 1) % Pow2(k % LimbBits) # 0

\* The number of trailing zero binary digits of a # 0, from digit i on.
RECURSIVE NatTrailingZerosFrom(_, _, _)
NatTrailingZerosFrom(a, i, d) ==
    IF d = 0 THEN LimbBits + NatTrailingZerosFrom(a, i + 1, a[i + 1])
    ELSE IF d % 2 = 1 THEN 0
    ELSE 1 + NatTrailingZerosFrom(a, i, d \div 2)

NatTrailingZeros(a) == NatTrailingZerosFrom(a, 1, a[1])

\* One step of long division in base 2^15: (r * 2^15 + x) divided by d # 0
\* for r < d, the binary digits of the digit x taken from position k down.
RECURSIVE NatDivBits(_, _, _, _, _)
NatDivBits(r, x, d, k, q) ==
    LET Taken(r2) ==
            IF NatCmp(r2, d) >= 0
            THEN NatDivBits(NatSub(r2, d), x, d, k - 1, 2 * q + 1)
            ELSE NatDivBits(r2, x, d, k - 1, 2 * q)
    IN  IF k < 0 THEN [q |-> q, r |-> r]
        ELSE Taken(NatMulAddFrom(r, 2, << >>, 1, (x \div Pow2(k)) % 2))

\* Long division of a by d # 0 from digit i of a down: the quotient q and the
\* remainder r.
RECURSIVE NatDivFrom(_, _, _, _, _)
NatDivFrom(a, d, i, r, q) ==
    LET Stepped(step) == NatDivFrom(a, d, i - 1, step.r, << step.q >> \o q)
    IN  IF i = 0 THEN [q |-> NatTrim(q), r |-> r]
        ELSE Stepped(NatDivBits(r, a[i], d, LimbBits - 1, 0))

NatDivMod(a, d) == NatDivFrom(a, d, Len(a), << >>, << >>)

\* ------------------------------------------------------- JavaScript numbers
\* A JS number is an IEEE 754 binary64 value. [k |-> "fin", s, m, e] is
\* s * m * 2^e with s the sign (0 for zero), m an odd natural below 2^53 and e
\* the exponent, -1074 <= e, m * 2^e < 2^1024: every finite double has one such
\* form. [k |-> "inf", s] is +Infinity or -Infinity and [k |-> "nan"] is NaN.
\* The sign of zero is not kept: the component never divides by a zero that
\* could be negative.
Precision == 53
MinExponent == -1074
MaxBinaryExponent == 1024

Zero == [k |-> "fin", s |-> 0, m |-> << >>, e |-> 0]
PosInf == [k |-> "inf", s |-> 1, m |-> << >>, e |-> 0]
NegInf == [k |-> "inf", s |-> -1, m |-> << >>, e |-> 0]
NaN == [k |-> "nan", s |-> 0, m |-> << >>, e |-> 0]
Inf(s) == IF s < 0 THEN NegInf ELSE PosInf

\* s * m * 2^e for m below 2^53 and e >= -1074, the trailing zeros of m moved
\* into the exponent: Infinity when it is 2^1024 or more.
Finite(s, m, e) ==
    LET Odd(z) == [k |-> "fin", s |-> s, m |-> NatShr(m, z), e |-> e + z]
    IN  IF m = << >> THEN Zero
        ELSE IF NatBitLen(m) + e > MaxBinaryExponent THEN Inf(s)
        ELSE Odd(NatTrailingZeros(m))

\* The double nearest to s * m * 2^e, ties to the even significand: m loses
\* its last shift binary digits when it has more than 53 or e is below -1074.
Round(s, m, e) ==
    LET Kept(r) == Finite(s, r.m, r.e)
        Nearest(shift, q) ==
            [ m |-> NatMulAddFrom(q, 1, << >>, 1,
                        IF /\ NatBit(m, shift - 1) = 1
                           /\ \/ NatLowBitsSet(m, shift - 1)
                              \/ NatDigit(q, 1) % 2 = 1
                        THEN 1 ELSE 0),
              e |-> e + shift ]
        Shifted(shift) ==
            Kept(IF shift <= 0 THEN [m |-> m, e |-> e]
                 ELSE Nearest(shift, NatShr(m, shift)))
        Larger(byPrecision, byRange) ==
            Shifted(IF byPrecision > byRange THEN byPrecision ELSE byRange)
    IN  Larger(NatBitLen(m) - Precision, MinExponent - e)

\* The double of an integer literal.
JsNum(n) ==
    Finite(IF n < 0 THEN -1 ELSE 1, NatOfInt(IF n < 0 THEN 0 - n ELSE n), 0)

\* The position above the leading binary digit of a finite number # 0.
Top(a) == NatBitLen(a.m) + a.e

\* The significands of two finite numbers # 0 at a common exponent. A number
\* more than 55 binary digits below the other only decides the rounding of a
\* sum: it is taken as one unit three digits below the 53 of the other.
Aligned(a, b) ==
    LET Near(x, distance) ==
            IF distance > Precision + 2
            THEN [m |-> << 1 >>, e |-> Top(x) + distance - Precision - 3]
            ELSE [m |-> x.m, e |-> x.e]
        Common(x, y, e) ==
            [a |-> NatShl(x.m, x.e - e), b |-> NatShl(y.m, y.e - e), e |-> e]
        Lower(x, y) == Common(x, y, IF x.e < y.e THEN x.e ELSE y.e)
        Apart(distance) == Lower(Near(a, 0 - distance), Near(b, distance))
    IN  Apart(Top(a) - Top(b))

JsMul(a, b) ==
    IF a.k = "nan" \/ b.k = "nan" THEN NaN
    ELSE IF a.k = "fin" /\ b.k = "fin"
    THEN Round(a.s * b.s, NatMul(a.m, b.m), a.e + b.e)
    ELSE IF a.s = 0 \/ b.s = 0 THEN NaN
    ELSE Inf(a.s * b.s)

\* The quotient of the significands is taken with 55 binary digits or more,
\* and one digit below them that tells whether a remainder is left.
JsDiv(a, b) ==
    LET Quotient(qr, e) ==
            Round(a.s * b.s,
                  NatMulAddFrom(qr.q, 2, << >>, 1, IF qr.r = << >> THEN 0 ELSE 1), e)
        Scaled(k) == Quotient(NatDivMod(NatShl(a.m, k), b.m), a.e - b.e - k - 1)
        Needing(need) == Scaled(IF need > 0 THEN need ELSE 0)
    IN  IF a.k = "nan" \/ b.k = "nan" THEN NaN
        ELSE IF a.k = "inf" /\ b.k = "inf" THEN NaN
        ELSE IF a.k = "inf" THEN Inf(a.s * (IF b.s < 0 THEN -1 ELSE 1))
        ELSE IF b.k = "inf" THEN Zero
        ELSE IF b.s = 0 THEN (IF a.s = 0 THEN NaN ELSE Inf(a.s))
        ELSE IF a.s = 0 THEN Zero
        ELSE Needing(Precision + 2 + NatBitLen(b.m) - NatBitLen(a.m))

JsAdd(a, b) ==
    LET Signed(sum) == Round(sum.s, sum.m, sum.e)
        Sum(al) ==
            Signed(IF a.s = b.s THEN [s |-> a.s, m |-> NatAdd(al.a, al.b), e |-> al.e]
                   ELSE IF NatCmp(al.a, al.b) >= 0
                   THEN [s |-> a.s, m |-> NatSub(al.a, al.b), e |-> al.e]
                   ELSE [s |-> b.s, m |-> NatSub(al.b, al.a), e |-> al.e])
    IN  IF a.k = "nan" \/ b.k = "nan" THEN NaN
        ELSE IF a.k = "inf" /\ b.k = "inf" THEN (IF a.s = b.s THEN a ELSE NaN)
        ELSE IF a.k = "inf" THEN a
        ELSE IF b.k = "inf" THEN b
        ELSE IF a.s = 0 THEN b
        ELSE IF b.s = 0 THEN a
        ELSE Sum(Aligned(a, b))

JsNeg(a) == [a EXCEPT !.s = 0 - a.s]

JsSub(a, b) == JsAdd(a, JsNeg(b))

\* a > b; every comparison with NaN is false.
JsGt(a, b) ==
    LET Above(al) == NatCmp(al.a, al.b) * a.s > 0
    IN  IF a.k = "nan" \/ b.k = "nan" THEN FALSE
        ELSE IF a.k = "inf" \/ b.k = "inf"
        THEN (IF a.k = "inf" /\ b.k = "inf" THEN a.s > b.s
              ELSE IF a.k = "inf" THEN a.s > 0 ELSE b.s < 0)
        ELSE IF a.s # b.s THEN a.s > b.s
        ELSE IF a.s = 0 THEN FALSE
        ELSE Above(Aligned(a, b))

\* Math.min / Math.max: NaN if either argument is NaN.
JsMin(a, b) ==
    IF a.k = "nan" \/ b.k = "nan" THEN NaN ELSE IF JsGt(a, b) THEN b ELSE a

JsMax(a, b) ==
    IF a.k = "nan" \/ b.k = "nan" THEN NaN ELSE IF JsGt(a, b) THEN a ELSE b

\* ------------------------------------------------------------------ routes
\* The route names the component knows an icon for, other than "camera".
RouteNames ==
    << "index", "history", "statistics", "calendar", "devices",
       "recommended-menus", "ai-chat", "food-scanner", "questionnaire",
       "profile" >>

\* The router's stable key of a route: a string that is not the route's name.
RouteKey(name) ==
    CASE name = "camera" -> "camera-key"
      [] name = "index" -> "index-key"
      [] name = "history" -> "history-key"
      [] name = "statistics" -> "statistics-key"
      [] name = "calendar" -> "calendar-key"
      [] name = "devices" -> "devices-key"
      [] name = "recommended-menus" -> "recommended-menus-key"
      [] name = "ai-chat" -> "ai-chat-key"
      [] name = "food-scanner" -> "food-scanner-key"
      [] name = "questionnaire" -> "questionnaire-key"
      [] OTHER -> "profile-key"

Route(name) == [name |-> name, key |-> RouteKey(name)]

\* A route list of n routes with "camera" at position c (1-based; c = 0: no
\* camera route), the other positions taking RouteNames in order.
RouteList(n, c) ==
    [i \in 1..n |->
        IF i = c THEN Route("camera")
        ELSE Route(RouteNames[IF c # 0 /\ i > c THEN i - 1 ELSE i])]

\* The positions (1-based) the router gives the "camera" route: none (0), the
\* second or the third.
CameraPositions == {0, 2, 3}

RouteLists == { RouteList(n, c) : n \in 0..MaxRoutes, c \in CameraPositions }

\* The focused indices a router gives with a route list (0 with no route).
Indices(rts) == IF Len(rts) = 0 THEN {0} ELSE 0..(Len(rts) - 1)

\* Dimensions.get("window").width, in density-independent pixels: 360, all
\* of whose quotients by 1..5 are exact doubles; 320, 393 and 412, some of
\* whose quotients are rounded; and two fractional widths, of a 1080 pixel
\* wide screen of density 2.625 = 21 / 8 (411.42857142857144) and of a 480
\* pixel wide screen of density 2.25 = 9 / 4 (213.33333333333334), the
\* latter a width whose fifth, times five, does not round back to it.
ScreenWidths ==
    { JsNum(320), JsNum(360), JsNum(393), JsNum(412),
      JsDiv(JsNum(1080 * 8), JsNum(21)), JsDiv(JsNum(480 * 4), JsNum(9)) }

\* The value of a pure computation: read from a table of the values computed
\* once for the inputs the specifications reach, and computed on the spot for
\* any other input.
Memo(table, key, value) == IF key \in DOMAIN table THEN table[key] ELSE value

\* --------------------------------------------------------------- constants
\* Math.min(routesCount, 5): at most five tabs are visible at once.
MaxVisibleTabs == 5
\* The 20 subtracted from the indicator's target: half the indicator's width.
IndicatorHalfWidth == 20

VARIABLES
    SCREEN_WIDTH,     \* the window width read when the module loads
    state,            \* the navigation state prop: [routes, index]
    isRTL,            \* useLanguage().isRTL
    scrollViewRef,    \* "attached" while the ScrollView is mounted, else "null"
    indicatorAnim,    \* the last target given to the indicator's Animated.Value
    iconAnimations,   \* per mount-time route, the last targets (or the initial values)
    tabCalculations,  \* the memoised geometry
    memoDeps,         \* the dependencies tabCalculations was computed with
    scrollToCalls,    \* the scrollTo commands issued by the last step
    emitted,          \* the events given to navigation.emit by the last step
    navigateCalls,    \* the navigate requests of the last press, until the next press or render
    lastAction,       \* what the last step was
    pendingEffect,    \* the kind of render whose useEffect callback React has yet to call, or "none"
    crashed           \* a render has thrown: the component is unmounted

vars ==
    << SCREEN_WIDTH, state, isRTL, scrollViewRef, indicatorAnim, iconAnimations,
       tabCalculations, memoDeps, scrollToCalls, emitted, navigateCalls,
       lastAction, pendingEffect, crashed >>

\* --------------------------------------------------------------- geometry
\* Array.prototype.findIndex for route.name === "camera": 0-based, -1 if absent.
FindCameraIndex(routes) ==
    IF \E i \in 1..Len(routes) : routes[i].name = "camera"
    THEN (CHOOSE i \in 1..Len(routes) :
              /\ routes[i].name = "camera"
              /\ \A j \in 1..(i - 1) : routes[j].name # "camera") - 1
    ELSE -1

\* The arithmetic of the useMemo callback: visibleTabs, tabWidth, totalWidth
\* and needsScroll.
TabGeometry(width, routesCount) ==
    LET visibleTabs == IF routesCount < MaxVisibleTabs THEN routesCount ELSE MaxVisibleTabs
        Geometry(tabWidth, totalWidth) ==
            [ tabWidth |-> tabWidth,
              totalWidth |-> totalWidth,
              needsScroll |-> JsGt(totalWidth, width) ]
        Tabs(tabWidth) == Geometry(tabWidth, JsMul(JsNum(routesCount), tabWidth))
    IN  Tabs(JsDiv(width, JsNum(visibleTabs)))

TabGeometries ==
    [width \in ScreenWidths, routesCount \in 0..MaxRoutes |->
        TabGeometry(width, routesCount)]

\* The body of the useMemo callback.
ComputeTabCalculations(st, width) ==
    LET routesCount == Len(st.routes)
        Calculations(geometry) ==
            [ tabWidth |-> geometry.tabWidth,
              totalWidth |-> geometry.totalWidth,
              needsScroll |-> geometry.needsScroll,
              activeIndex |-> st.index,
              cameraIndex |-> FindCameraIndex(st.routes),
              routesCount |-> routesCount ]
    IN  Calculations(Memo(TabGeometries, << width, routesCount >>,
                          TabGeometry(width, routesCount)))

\* The dependency list of the useMemo: [state.routes.length, state.index].
MemoDepsOf(st) == << Len(st.routes), st.index >>

\* useMemo: the callback runs again only when a dependency changed.
UseMemo(prev, prevDeps, st, width) ==
    IF MemoDepsOf(st) = prevDeps THEN prev ELSE ComputeTabCalculations(st, width)

\* ------------------------------------------------------------- animations
\* The double of a decimal literal with one digit after the point: the double
\* nearest to tenths / 10.
Decimal(tenths) == JsDiv(JsNum(tenths), JsNum(10))

\* The values the per-route Animated.Values are created with.
InitialIconAnimation ==
    [scale |-> JsNum(1), translateY |-> JsNum(0), opacity |-> Decimal(7)]

\* The toValue of the three animations of an active and of an inactive icon.
ActiveIconTarget ==
    [scale |-> Decimal(11), translateY |-> JsNum(-2), opacity |-> JsNum(1)]

InactiveIconTarget ==
    [scale |-> JsNum(1), translateY |-> JsNum(0), opacity |-> Decimal(6)]

IconTarget(isActive) == IF isActive THEN ActiveIconTarget ELSE InactiveIconTarget

\* The numbers animateToActiveTab computes with: the active index, the tab
\* width and the total width of the geometry, and the width of the window.
EffectInput(tc, width) ==
    [ activeIndex |-> tc.activeIndex, tabWidth |-> tc.tabWidth,
      totalWidth |-> tc.totalWidth, width |-> width ]

\* The inputs of animateToActiveTab under a window width of ScreenWidths and
\* a list of up to MaxRoutes routes.
EffectInputs ==
    LET Under(geometries) ==
            { [ activeIndex |-> i, tabWidth |-> geometries[key].tabWidth,
                totalWidth |-> geometries[key].totalWidth, width |-> key[1] ] :
                key \in DOMAIN geometries, i \in 0..MaxRoutes }
    IN  Under(TabGeometries)

\* The toValue of the indicator's spring.
IndicatorTarget(tc) ==
    JsSub(JsAdd(JsMul(JsNum(tc.activeIndex), tc.tabWidth),
                JsDiv(tc.tabWidth, JsNum(2))),
          JsNum(IndicatorHalfWidth))

IndicatorTargets == [in \in EffectInputs |-> IndicatorTarget(in)]

\* AnimateIcons without the exclusion of the camera's entry.
AnimateIconsAll(anims, tc) ==
    [i \in 1..Len(anims) |-> IconTarget(i - 1 = tc.activeIndex)]

\* iconAnimations.forEach: every entry but the one at cameraIndex is retargeted.
AnimateIcons(anims, tc) ==
    [i \in 1..Len(anims) |->
        LET index == i - 1
            isActive == index = tc.activeIndex
            isCamera == index = tc.cameraIndex
        IN  IF ~isCamera THEN IconTarget(isActive) ELSE anims[i]]

\* ScrollOffset without the upper clamp (the Math.min).
ScrollOffsetNoUpperClamp(tc, width) ==
    JsMax(JsNum(0),
          JsAdd(JsSub(JsMul(JsNum(tc.activeIndex), tc.tabWidth),
                      JsDiv(width, JsNum(2))),
                JsDiv(tc.tabWidth, JsNum(2))))

\* const scrollOffset = Math.max(0, Math.min(..., totalWidth - SCREEN_WIDTH))
ScrollOffset(tc, width) ==
    JsMax(JsNum(0),
          JsMin(JsAdd(JsSub(JsMul(JsNum(tc.activeIndex), tc.tabWidth),
                            JsDiv(width, JsNum(2))),
                      JsDiv(tc.tabWidth, JsNum(2))),
                JsSub(tc.totalWidth, width)))

\* ScrollToX without the right-to-left mirroring.
ScrollToXUnmirrored(tc, width, rtl) == ScrollOffset(tc, width)

\* The x of the scrollTo command.
ScrollToX(tc, width, rtl) ==
    LET FinalScrollOffset(scrollOffset) ==
            IF rtl THEN JsSub(JsSub(tc.totalWidth, width), scrollOffset)
            ELSE scrollOffset
    IN  FinalScrollOffset(ScrollOffset(tc, width))

ScrollToXs ==
    [in \in EffectInputs, rtl \in BOOLEAN |-> ScrollToX(in, in.width, rtl)]

\* The scrollTo commands one run of animateToActiveTab issues.
AutoScroll(tc, width, rtl, ref) ==
    IF tc.needsScroll /\ ref = "attached"
    THEN << [ x |-> Memo(ScrollToXs, << EffectInput(tc, width), rtl >>,
                         ScrollToX(tc, width, rtl)),
              animated |-> TRUE ] >>
    ELSE << >>

\* ----------------------------------------------------------------- render
\* The positions (1-based) rendered as touchable tabs: every route but "camera".
RenderedTabs(routes) == { i \in 1..Len(routes) : routes[i].name # "camera" }

\* renderFloatingCameraButton returns null unless a route is named "camera".
FloatingButtonRendered(routes) == \E i \in 1..Len(routes) : routes[i].name = "camera"

\* A rendered tab reads iconAnimations[index].scale: a TypeError when the
\* array, sized at mount, has no entry there.
RenderThrows(routes, anims) == \E i \in RenderedTabs(routes) : i > Len(anims)

\* --------------------------------------------------------------- handlers
\* isFocused of an inline tab, as its render closed over it.
TabIsFocused(st, index) == st.index = index

\* isFocused of the floating button: state.index === tabCalculations.cameraIndex.
CameraIsFocused(st, tc) == st.index = tc.cameraIndex

\* onPress of an inline tab; prevented is what the listeners made of the event.
TabOnPress(route, isFocused, prevented) ==
    [ emitted |-> << [type |-> "tabPress", target |-> route.key,
                      canPreventDefault |-> TRUE] >>,
      navigateCalls |-> IF ~isFocused /\ ~prevented THEN << route.name >> ELSE << >> ]

\* onPress of the floating camera button.
CameraOnPress(cameraRoute, isFocused, prevented) ==
    [ emitted |-> << [type |-> "tabPress", target |-> cameraRoute.key,
                      canPreventDefault |-> TRUE] >>,
      navigateCalls |-> IF ~isFocused /\ ~prevented THEN << cameraRoute.name >> ELSE << >> ]

\* onLongPress behaving as onPress of an unfocused tab.
TabOnLongPressAsPress(route) ==
    [ emitted |-> << [type |-> "tabPress", target |-> route.key,
                      canPreventDefault |-> TRUE] >>,
      navigateCalls |-> << route.name >> ]

\* onLongPress of an inline tab.
TabOnLongPress(route) ==
    [ emitted |-> << [type |-> "tabLongPress", target |-> route.key] >>,
      navigateCalls |-> << >> ]

\* The step record: op (a handler, a render, or for an effect the kind of
\* render it belongs to: "mount", "focus" for a change of state.index alone,
\* "update" otherwise), the 1-based position it was about (0: none), whether
\* a listener canceled the event, and whether animateToActiveTab ran in the step.
Step(op, position, prevented, effect) ==
    [op |-> op, position |-> position, prevented |-> prevented, effect |-> effect]

\* ------------------------------------------------------------------- mount
\* The first render and its commit (the ref attaches): the Animated.Values
\* hold what they were created with, and the first effect is yet to run.
Init ==
    \E routes \in RouteLists, rtl \in BOOLEAN, width \in ScreenWidths :
      \E index \in Indices(routes) :
        LET st == [routes |-> routes, index |-> index]
        IN  /\ SCREEN_WIDTH = width
            /\ state = st
            /\ isRTL = rtl
            /\ scrollViewRef = "attached"
            /\ tabCalculations = ComputeTabCalculations(st, width)
            /\ memoDeps = MemoDepsOf(st)
            /\ indicatorAnim = JsNum(0)
            /\ iconAnimations = [i \in 1..Len(routes) |-> InitialIconAnimation]
            /\ scrollToCalls = << >>
            /\ emitted = << >>
            /\ navigateCalls = << >>
            /\ lastAction = Step("mount", 0, FALSE, FALSE)
            /\ pendingEffect = "mount"
            /\ crashed = FALSE

\* ---------------------------------------------------------------- updates
\* A render with new props or a new text direction, and its commit: the
\* useCallback (deps [tabCalculations, isRTL]) yields a new function, and so
\* the useEffect is scheduled, only when the memo was recomputed or isRTL
\* changed. React calls the effects of the last commit before it renders
\* again, so a render starts with no effect pending. A render that throws
\* commits nothing and unmounts the component.
Rerender(st, rtl, op) ==
    LET kind == IF op \in {"focus", "navigate"} THEN "focus" ELSE "update"
        tc == UseMemo(tabCalculations, memoDeps, st, SCREEN_WIDTH)
        throws == RenderThrows(st.routes, iconAnimations)
        callbackChanged == MemoDepsOf(st) # memoDeps \/ rtl # isRTL
    IN  /\ pendingEffect = "none"
        /\ state' = st
        /\ isRTL' = rtl
        /\ tabCalculations' = tc
        /\ memoDeps' = MemoDepsOf(st)
        /\ crashed' = throws
        /\ scrollViewRef' = IF throws THEN "null" ELSE scrollViewRef
        /\ pendingEffect' = IF ~throws /\ callbackChanged THEN kind ELSE "none"
        /\ scrollToCalls' = << >>
        /\ emitted' = << >>
        /\ navigateCalls' = << >>
        /\ lastAction' = Step(op, 0, FALSE, FALSE)
        /\ UNCHANGED << SCREEN_WIDTH, indicatorAnim, iconAnimations >>

\* React calls the useEffect callback of the last commit: animateToActiveTab,
\* with the tabCalculations and the isRTL of that render.
RunEffect ==
    /\ ~crashed
    /\ pendingEffect # "none"
    /\ indicatorAnim' = Memo(IndicatorTargets, EffectInput(tabCalculations, SCREEN_WIDTH),
                             IndicatorTarget(tabCalculations))
    /\ iconAnimations' = AnimateIcons(iconAnimations, tabCalculations)
    /\ scrollToCalls' = AutoScroll(tabCalculations, SCREEN_WIDTH, isRTL, scrollViewRef)
    /\ emitted' = << >>
    /\ lastAction' = Step(pendingEffect, 0, FALSE, TRUE)
    /\ pendingEffect' = "none"
    /\ UNCHANGED << SCREEN_WIDTH, state, isRTL, scrollViewRef, tabCalculations,
                    memoDeps, navigateCalls, crashed >>

\* The component is mounted: no render has thrown. The handlers and the
\* renders have no other precondition: a press or new props may come while
\* the router has yet to serve the navigate request of an earlier press.
Mounted == ~crashed

\* The router focuses another route of the same list.
FocusChange(index) ==
    /\ Mounted
    /\ index # state.index
    /\ Rerender([routes |-> state.routes, index |-> index], isRTL, "focus")

\* The route lists one router update leads to from cur: a route added at the
\* end, the last route removed, or the same routes in another order.
IsPrefix(short, long) ==
    /\ Len(long) = Len(short) + 1
    /\ \A i \in 1..Len(short) : long[i] = short[i]

IsReordering(cur, routes) ==
    /\ Len(routes) = Len(cur)
    /\ { routes[i] : i \in 1..Len(routes) } = { cur[i] : i \in 1..Len(cur) }

NextRouteLists(cur) ==
    { routes \in RouteLists :
        /\ routes # cur
        /\ \/ IsReordering(cur, routes)
           \/ IsPrefix(cur, routes)
           \/ IsPrefix(routes, cur) }

NextRouteListsOf == [cur \in RouteLists |-> NextRouteLists(cur)]

\* The index the router keeps when the list changes: the same position, or
\* the last one when that position is gone (a change of focus is FocusChange).
KeptIndex(routes, index) ==
    IF index < Len(routes) THEN index
    ELSE IF Len(routes) = 0 THEN 0 ELSE Len(routes) - 1

\* The router hands over another route list.
RoutesChange(routes) ==
    /\ Mounted
    /\ Rerender([routes |-> routes, index |-> KeptIndex(routes, state.index)],
                isRTL, "routes")

\* The router serves the navigate request of the last press.
RouterNavigate ==
    /\ ~crashed
    /\ navigateCalls # << >>
    /\ \E i \in 1..Len(state.routes) :
         /\ state.routes[i].name = navigateCalls[1]
         /\ Rerender([routes |-> state.routes, index |-> i - 1], isRTL, "navigate")

\* The language, and with it the text direction, changes.
SetRTL(rtl) ==
    /\ Mounted
    /\ rtl # isRTL
    /\ Rerender(state, rtl, "direction")

\* ----------------------------------------------------------------- presses
Handled(result, step) ==
    /\ emitted' = result.emitted
    /\ navigateCalls' = result.navigateCalls
    /\ lastAction' = step
    /\ scrollToCalls' = << >>
    /\ UNCHANGED << SCREEN_WIDTH, state, isRTL, scrollViewRef, indicatorAnim,
                    iconAnimations, tabCalculations, memoDeps, pendingEffect,
                    crashed >>

PressTab(i, prevented) ==
    /\ Mounted
    /\ i \in RenderedTabs(state.routes)
    /\ Handled(TabOnPress(state.routes[i], TabIsFocused(state, i - 1), prevented),
               Step("press", i, prevented, FALSE))

PressCamera(prevented) ==
    /\ Mounted
    /\ FloatingButtonRendered(state.routes)
    /\ LET i == FindCameraIndex(state.routes) + 1
       IN  Handled(CameraOnPress(state.routes[i],
                                 CameraIsFocused(state, tabCalculations), prevented),
                   Step("pressCamera", i, prevented, FALSE))

LongPressTab(i) ==
    /\ Mounted
    /\ i \in RenderedTabs(state.routes)
    /\ Handled(TabOnLongPress(state.routes[i]), Step("longPress", i, FALSE, FALSE))

\* ---------------------------------------------------------- specifications
Next ==
    \/ \E i \in 1..MaxRoutes, prevented \in BOOLEAN : PressTab(i, prevented)
    \/ \E prevented \in BOOLEAN : PressCamera(prevented)
    \/ \E i \in 1..MaxRoutes : LongPressTab(i)
    \/ RouterNavigate
    \/ RunEffect
    \/ \E index \in Indices(state.routes) : FocusChange(index)
    \/ \E routes \in Memo(NextRouteListsOf, state.routes, NextRouteLists(state.routes)) :
         RoutesChange(routes)
    \/ \E rtl \in BOOLEAN : SetRTL(rtl)

Spec == Init /\ [][Next]_vars

\* The same component under a router whose route list never changes.
NextFocus ==
    \/ \E i \in 1..MaxRoutes, prevented \in BOOLEAN : PressTab(i, prevented)
    \/ \E prevented \in BOOLEAN : PressCamera(prevented)
    \/ \E i \in 1..MaxRoutes : LongPressTab(i)
    \/ RouterNavigate
    \/ RunEffect
    \/ \E index \in Indices(state.routes) : FocusChange(index)
    \/ \E rtl \in BOOLEAN : SetRTL(rtl)

SpecFocus == Init /\ [][NextFocus]_vars

\* ------------------------------------------------------------------ claims
\* a <= b; false when either is NaN.
JsLe(a, b) == a.k # "nan" /\ b.k # "nan" /\ ~JsGt(a, b)

\* A number without a fractional part.
IsWhole(a) == a.k = "fin" /\ a.e >= 0

\* totalWidth - viewportWidth: the width the tabs overflow the viewport by.
Overflow == JsSub(tabCalculations.totalWidth, SCREEN_WIDTH)

\* The route the last press or long press was on.
PressedRoute == state.routes[lastAction.position]

\* C1: a press (inline tab or floating camera button) emits exactly one
\* cancelable tabPress event targeted at the route's key, and issues exactly
\* one navigate(route.name) when the route is not the focused one
\* (state.index differs from its position) and no listener canceled the
\* event, and no navigate otherwise.
C1_PressContract ==
    lastAction.op \in {"press", "pressCamera"} =>
        /\ emitted = << [type |-> "tabPress", target |-> PressedRoute.key,
                         canPreventDefault |-> TRUE] >>
        /\ navigateCalls =
             IF state.index # lastAction.position - 1 /\ ~lastAction.prevented
             THEN << PressedRoute.name >>
             ELSE << >>

\* The geometry C2 states for a viewport width and R >= 1 routes.
TabWidthLaw ==
    [width \in ScreenWidths, R \in 1..MaxRoutes |->
        IF R <= 5
        THEN [ tabWidth |-> JsDiv(width, JsNum(R)),
               totalWidth |-> width,
               needsScroll |-> FALSE ]
        ELSE [ tabWidth |-> JsDiv(width, JsNum(5)),
               totalWidth |-> JsMul(JsNum(R), JsDiv(width, JsNum(5))),
               needsScroll |-> TRUE ]]

\* C2: with 1 <= R <= 5 routes tabWidth = viewportWidth / R, totalWidth =
\* viewportWidth and needsScroll is false; with R > 5 routes tabWidth =
\* viewportWidth / 5, totalWidth = R * tabWidth and needsScroll is true.
C2_TabWidthLaw ==
    LET R == Len(state.routes)
        tc == tabCalculations
        law == TabWidthLaw[SCREEN_WIDTH, R]
    IN  R >= 1 =>
            /\ tc.tabWidth = law.tabWidth
            /\ tc.totalWidth = law.totalWidth
            /\ tc.needsScroll = law.needsScroll

\* C3: the target animateToActiveTab springs the indicator to lies within
\* [0, viewportWidth] for every route count and every active index in
\* 0..routeCount-1 (read once the effect of the last render has run).
C3_IndicatorWithinViewport ==
    (/\ ~crashed
     /\ pendingEffect = "none"
     /\ Len(state.routes) >= 1
     /\ state.index \in 0..(Len(state.routes) - 1)) =>
        /\ indicatorAnim.k = "fin"
        /\ JsLe(JsNum(0), indicatorAnim)
        /\ JsLe(indicatorAnim, SCREEN_WIDTH)

\* clamp(v, lo, hi)
Clamp(v, lo, hi) == IF JsGt(lo, v) THEN lo ELSE IF JsGt(v, hi) THEN hi ELSE v

\* clamp(activeIndex * tabWidth - viewportWidth/2 + tabWidth/2, 0, totalWidth
\* - viewportWidth), in the arithmetic and the order of the code.
ClampedOffset(in) ==
    Clamp(JsAdd(JsSub(JsMul(JsNum(in.activeIndex), in.tabWidth),
                      JsDiv(in.width, JsNum(2))),
                JsDiv(in.tabWidth, JsNum(2))),
          JsNum(0), JsSub(in.totalWidth, in.width))

ClampedOffsets == [in \in EffectInputs |-> ClampedOffset(in)]

\* The clamped left-to-right offset of the active index.
ExpectedOffset ==
    LET in == [ activeIndex |-> state.index,
                tabWidth |-> tabCalculations.tabWidth,
                totalWidth |-> tabCalculations.totalWidth,
                width |-> SCREEN_WIDTH ]
    IN  Memo(ClampedOffsets, in, ClampedOffset(in))

\* The mirror image of a scroll position in the overflowing strip:
\* totalWidth - viewportWidth - x.
Mirror(x) == JsSub(Overflow, x)

\* C4: a scrollTo command is issued only when needsScroll is true and the
\* scroll handle is attached; the left-to-right offset it is computed from is
\* clamp(activeIndex * tabWidth - viewportWidth/2 + tabWidth/2, 0, totalWidth
\* - viewportWidth) and lies in [0, max(0, totalWidth - viewportWidth)]; with
\* 6 routes, viewport 360 and active index 4 it is 72.
C4_ScrollOffsetClamped ==
    scrollToCalls # << >> =>
        LET offset == ExpectedOffset
        IN  /\ Len(scrollToCalls) = 1
            /\ tabCalculations.needsScroll
            /\ scrollViewRef = "attached"
            /\ offset.k = "fin"
            /\ scrollToCalls[1].x = IF isRTL THEN Mirror(offset) ELSE offset
            /\ JsLe(JsNum(0), offset)
            /\ JsLe(offset, JsMax(JsNum(0), Overflow))
            /\ (Len(state.routes) = 6 /\ SCREEN_WIDTH = JsNum(360) /\ state.index = 4)
                  => offset = JsNum(72)

\* C4 witness: the effect of a focus change to index 4 of six routes on a 360 wide
\* viewport, left to right, has scrolled to x = 72 (the raw offset 144 capped).
C4_Witness ==
    /\ lastAction.op = "focus"
    /\ lastAction.effect
    /\ Len(state.routes) = 6 /\ SCREEN_WIDTH = JsNum(360) /\ state.index = 4 /\ ~isRTL
    /\ scrollToCalls = << [x |-> JsNum(72), animated |-> TRUE] >>

\* The x of the last scrollTo against the clamped left-to-right offset of the
\* same active index: mirrored right to left, the offset itself left to
\* right, and within [0, totalWidth - viewportWidth].
XMirrorsOffset(x, ltr) ==
    /\ x.k = "fin" /\ ltr.k = "fin"
    /\ isRTL => x = JsSub(JsSub(tabCalculations.totalWidth, SCREEN_WIDTH), ltr)
    /\ ~isRTL => x = ltr
    /\ JsLe(JsNum(0), x) /\ JsLe(x, Overflow)

\* C5: in right-to-left mode the x given to scrollTo is totalWidth -
\* viewportWidth - (the clamped left-to-right offset of the same active
\* index), and so lies in [0, totalWidth - viewportWidth]; in left-to-right
\* mode it is the clamped offset itself; mirroring twice gives the offset back.
C5_RtlMirrorsOffset ==
    scrollToCalls # << >> =>
        /\ XMirrorsOffset(scrollToCalls[1].x, ExpectedOffset)
        /\ Mirror(Mirror(ExpectedOffset)) = ExpectedOffset

\* C5 as amended: in right-to-left mode the x given to scrollTo is totalWidth
\* - viewportWidth - (the clamped left-to-right offset), within [0, totalWidth
\* - viewportWidth]; in left-to-right mode it is the clamped offset itself;
\* mirroring twice gives the offset back when tabWidth is a whole number
\* (otherwise the two subtractions may round).
C5_RtlMirrorsOffsetRounded ==
    scrollToCalls # << >> =>
        /\ XMirrorsOffset(scrollToCalls[1].x, ExpectedOffset)
        /\ IsWhole(tabCalculations.tabWidth)
              => Mirror(Mirror(ExpectedOffset)) = ExpectedOffset

\* C5 witness: the effect of an update (of the direction or of the route
\* list) has just run right-to-left on an overflowing strip of whole tab
\* width, and the mirrored x differs from the left-to-right offset.
C5_Witness ==
    /\ lastAction.op = "update"
    /\ lastAction.effect
    /\ isRTL
    /\ scrollToCalls # << >>
    /\ IsWhole(tabCalculations.tabWidth)
    /\ scrollToCalls[1].x # ExpectedOffset
    /\ Mirror(scrollToCalls[1].x) = ExpectedOffset

\* C6: with an empty route list the layout calculation raises no error and
\* yields tabWidth = 0, totalWidth = 0 and needsScroll = false, and neither a
\* tab nor the floating button is rendered.
C6_EmptyListZeroGeometry ==
    Len(state.routes) = 0 =>
        /\ ~crashed
        /\ tabCalculations.tabWidth = JsNum(0)
        /\ tabCalculations.totalWidth = JsNum(0)
        /\ tabCalculations.needsScroll = FALSE
        /\ RenderedTabs(state.routes) = {}
        /\ ~FloatingButtonRendered(state.routes)

\* C7: a long press on an inline tab emits exactly one tabLongPress event
\* targeted at the route's key, without a canPreventDefault flag, and issues
\* no navigate request and no tabPress, focused or not.
C7_LongPressOnlyEmits ==
    lastAction.op = "longPress" =>
        /\ Len(emitted) = 1
        /\ emitted[1].type = "tabLongPress"
        /\ emitted[1].target = PressedRoute.key
        /\ DOMAIN emitted[1] = {"type", "target"}
        /\ navigateCalls = << >>

\* C7 witness: a long press on a tab that is not the focused one, where a
\* press would have navigated.
C7_Witness ==
    /\ lastAction.op = "longPress"
    /\ lastAction.position - 1 # state.index
    /\ emitted # << >>

\* The values an icon's animated state is created with (1, 0, 0.7), the
\* targets of an active icon (1.1, -2, 1.0) and of an inactive one (1.0, 0, 0.6).
InitialValues ==
    [scale |-> JsNum(1), translateY |-> JsNum(0), opacity |-> Decimal(7)]

ActiveTargets ==
    [scale |-> Decimal(11), translateY |-> JsNum(-2), opacity |-> JsNum(1)]

InactiveTargets ==
    [scale |-> JsNum(1), translateY |-> JsNum(0), opacity |-> Decimal(6)]

\* C8: under focus changes alone, once the effect of the last render has run,
\* the last targets of every route other than the camera are scale 1.1,
\* translateY -2 and opacity 1.0 exactly when the route is the active one and
\* 1.0, 0 and 0.6 otherwise, so at most one route holds the active targets;
\* the camera's animated state is never retargeted and keeps its initial
\* values 1, 0 and 0.7.
C8_IconTargetsFollowFocus ==
    pendingEffect = "none" =>
    /\ Len(iconAnimations) = Len(state.routes)
    /\ \A i \in 1..Len(state.routes) :
         IF state.routes[i].name = "camera"
         THEN iconAnimations[i] = InitialValues
         ELSE IF i - 1 = state.index
              THEN iconAnimations[i] = ActiveTargets
              ELSE iconAnimations[i] = InactiveTargets
    /\ Cardinality({ i \in 1..Len(iconAnimations) :
                       iconAnimations[i] = ActiveTargets }) <= 1

\* C8 witness: the focus has moved, after mount, to a route other than the
\* camera in a list that holds a camera route and two more.
C8_Witness ==
    /\ lastAction.op = "focus"
    /\ lastAction.effect
    /\ Len(state.routes) >= 3
    /\ FloatingButtonRendered(state.routes)
    /\ state.routes[state.index + 1].name # "camera"
    /\ iconAnimations[state.index + 1] = ActiveTargets

\* C9: at every render, whatever the router's updates (routes added or
\* removed after mount included), iconAnimations holds an entry at every
\* index 0..routeCount-1 the renderer reads: one animated state per route.
C9_OneAnimationPerRoute ==
    /\ ~crashed
    /\ \A i \in 1..Len(state.routes) : i \in DOMAIN iconAnimations

\* C10: at every render, whatever the router's updates (a reordering that
\* keeps the route count and the active index included), the cameraIndex of
\* the geometry is the current position of the route named "camera" (-1 when
\* there is none), so the floating button counts as focused exactly when the
\* active route is the camera route.
C10_CameraIndexCurrent ==
    /\ \A i \in 1..Len(state.routes) :
         state.routes[i].name = "camera" <=> tabCalculations.cameraIndex = i - 1
    /\ (~FloatingButtonRendered(state.routes)) => tabCalculations.cameraIndex = -1
    /\ FloatingButtonRendered(state.routes) =>
         (CameraIsFocused(state, tabCalculations)
            <=> state.routes[state.index + 1].name = "camera")

====
